---- MODULE Spec2Model ----
(***************************************************************************)
(* Stardust particle engine: the stated-policy wrapper (erase_state), the  *)
(* shared policy handle (shared_policy), the particle, the manual engine   *)
(* (step / draw) and the automatic engine (hooks, run predicate, start,    *)
(* stop, run_while, run_until).                                            *)
(*                                                                         *)
(* A policy is observed through three counters: how often it was called    *)
(* with a payload (calls) and how often its notification handler was       *)
(* called with state_change::local (locals) and state_change::global       *)
(* (globals).  The update policy of the scenes considered is the counter   *)
(* policy "payload += 1".                                                  *)
(***************************************************************************)
EXTENDS Integers, Sequences, FiniteSets, TLC

\* ------------------------------------------------------------------ bounds
MaxParticles == 2
MaxSteps == 3
MaxCalls == 2
MaxThr == 1
MaxHandles == 2
MaxScene == 3
MaxK == 5

VARIABLES eng, twin, twinOn, ncalls, wrap, handles

vars == <<eng, twin, twinOn, ncalls, wrap, handles>>

\* ------------------------------------------------- stated_policies.hpp
Local == "local"
Global == "global"

\* A freshly constructed policy.
NewPolicy == [calls |-> 0, locals |-> 0, globals |-> 0]

\* policy( payload ): the policy's ordinary call.
PolicyCall(p) == [p EXCEPT !.calls = @ + 1]

\* policy( change ): the notification handler of a stated policy.
PolicyNotify(p, change) ==
    IF change = Local THEN [p EXCEPT !.locals = @ + 1]
                      ELSE [p EXCEPT !.globals = @ + 1]

UpdateRequestForwardAlways(stated, p, change) == PolicyNotify(p, change)

UpdateRequestWrongTag(stated, p, change) ==
    IF stated THEN PolicyNotify(p, Global) ELSE p

\* erase_state::update_request<P,HAS_STATE>::execute: the primary template
\* calls policy( change ); the false_type specialization does nothing.
UpdateRequest(stated, p, change) ==
    IF stated THEN PolicyNotify(p, change) ELSE p

\* erase_state::operator()( state_change )
EraseStateNotify(stated, p, change) == UpdateRequest(stated, p, change)

\* erase_state::operator()( ARGS&&... ): calls the underlying policy.
EraseStateInvoke(p) == PolicyCall(p)

\* ------------------------------------------------------ trace of events
Ev(op, idx, change) == [op |-> op, idx |-> idx, change |-> change]

\* ----------------------------------------------------------- particle.hpp
\* A particle owns its payload and two wrapped policies.  A wrapper of a
\* shared_policy holds the index of the shared instance (ref > 0) in the
\* heap; a wrapper of a plain policy holds the policy itself (ref = 0).
\* org names the shared_policy the handle was copied from (0: none).
OwnSlot == [ref |-> 0, org |-> 0, st |-> NewPolicy]

SharedSlot(h) == [ref |-> h.ref, org |-> h.org, st |-> NewPolicy]

\* particle::particle( data , evolution_policy , drawing_policy )
MakeParticle(data, evo, drw) == [data |-> data, evo |-> evo, drw |-> drw]

\* shared_policy::operator(): (*_ptr)( args... ) on the shared instance,
\* or the owned policy of a plain wrapper.
InvokeEvo(w, i) ==
    LET r == w.scene[i].evo.ref IN
    IF r > 0 THEN [w EXCEPT !.heap[r] = EraseStateInvoke(@)]
             ELSE [w EXCEPT !.scene[i].evo.st = EraseStateInvoke(@)]

NotifyEvo(w, i, change) ==
    LET r == w.scene[i].evo.ref IN
    IF r > 0 THEN [w EXCEPT !.heap[r] = EraseStateNotify(w.cfg.evoStated, @, change)]
             ELSE [w EXCEPT !.scene[i].evo.st = EraseStateNotify(w.cfg.evoStated, @, change)]

NotifyDrw(w, i, change) ==
    [w EXCEPT !.scene[i].drw.st = EraseStateNotify(w.cfg.drwStated, @, change)]

\* particle::update() const: the policy is called on the read-only payload,
\* then both wrappers receive state_change::local.
ParticleUpdateConst(w, i) ==
    LET a == InvokeEvo(w, i)
        b == NotifyEvo(a, i, Local)
        c == NotifyDrw(b, i, Local)
    IN [c EXCEPT !.trace = @ \o << Ev("update", i, "-"), Ev("evo_call", i, "-"),
                                   Ev("evo_notify", i, Local),
                                   Ev("drw_notify", i, Local) >>]

\* The update made on a copy of the particle: the element of the scene keeps
\* its payload.
ParticleUpdateOnCopy(w, i) ==
    LET a == InvokeEvo(w, i) IN
    [a EXCEPT !.trace = @ \o << Ev("update", i, "-"), Ev("evo_call", i, "-") >>]

\* particle::update(): _evolution_policy( _data ), the counter policy adds 1.
ParticleUpdate(w, i) ==
    LET a == InvokeEvo(w, i) IN
    [a EXCEPT !.scene[i].data = @ + 1,
              !.trace = @ \o << Ev("update", i, "-"), Ev("evo_call", i, "-") >>]

ParticleDrawNotifies(w, i) ==
    LET a == [w EXCEPT !.scene[i].drw.st = EraseStateInvoke(@),
                       !.scene[i].data = IF w.cfg.drwWrites THEN @ + 1 ELSE @]
        b == NotifyDrw(a, i, Local)
    IN [b EXCEPT !.trace = << Ev("draw", i, "-"), Ev("drw_call", i, "-"),
                              Ev("drw_notify", i, Local) >>]

\* particle::draw(): _draw_policy( _data ) in a non-const member function,
\* the policy receives the payload as a non-const lvalue.
ParticleDraw(w, i) ==
    [w EXCEPT !.scene[i].drw.st = EraseStateInvoke(@),
              !.scene[i].data = IF w.cfg.drwWrites THEN @ + 1 ELSE @,
              !.trace = << Ev("draw", i, "-"), Ev("drw_call", i, "-") >>]

\* particle::draw() const: the policy receives the payload as a const
\* lvalue.
ParticleDrawConst(w, i) ==
    [w EXCEPT !.scene[i].drw.st = EraseStateInvoke(@),
              !.trace = << Ev("draw", i, "-"), Ev("drw_call", i, "-") >>]

\* ------------------------------------------------------ basic_engines.hpp
RECURSIVE UpdateAll(_, _)
\* for( auto& particle : _scene ) particle.update();
UpdateAll(w, i) ==
    IF i > Len(w.scene) THEN w ELSE UpdateAll(ParticleUpdate(w, i), i + 1)

RECURSIVE UpdateAllNotifying(_, _)
UpdateAllNotifying(w, i) ==
    IF i > Len(w.scene) THEN w
    ELSE LET u == ParticleUpdate(w, i) IN
         UpdateAllNotifying(
             [u EXCEPT !.dp = EraseStateNotify(u.cfg.dpStated, @, Global),
                       !.trace = Append(@, Ev("dp_notify", 0, Global))], i + 1)

StepInterleaved(w) ==
    LET u == UpdateAllNotifying([w EXCEPT !.trace = << >>], 1) IN
    [u EXCEPT !.steps = @ + 1]

\* The step that tells the collection draw policy Local instead of Global.
StepLocalToCollection(w) ==
    LET u == UpdateAll([w EXCEPT !.trace = << >>], 1) IN
    [u EXCEPT !.dp = EraseStateNotify(u.cfg.dpStated, @, Local),
              !.trace = Append(@, Ev("dp_notify", 0, Local)),
              !.steps = @ + 1]

\* basic_manual_engine::step()
StepOf(w) ==
    LET u == UpdateAll([w EXCEPT !.trace = << >>], 1) IN
    [u EXCEPT !.dp = EraseStateNotify(u.cfg.dpStated, @, Global),
              !.trace = Append(@, Ev("dp_notify", 0, Global)),
              !.steps = @ + 1]

RECURSIVE UpdateUpTo(_, _, _)
\* The traversal of step() from particle i to particle last.
UpdateUpTo(w, i, last) ==
    IF i > last THEN w ELSE UpdateUpTo(ParticleUpdate(w, i), i + 1, last)

\* The failure caught and the step finished as usual.
StepFailsStillNotifies(w, j, wrote) ==
    LET u == UpdateUpTo([w EXCEPT !.trace = << >>], 1, j - 1)
        v == InvokeEvo(u, j)
    IN [v EXCEPT !.scene[j].data = IF wrote THEN @ + 1 ELSE @,
                 !.dp = EraseStateNotify(v.cfg.dpStated, @, Global),
                 !.trace = @ \o << Ev("update", j, "-"), Ev("throw", j, "-"),
                                   Ev("dp_notify", 0, Global) >>]

\* basic_manual_engine::step() when the update policy of particle j throws,
\* before or after it wrote the payload: the exception leaves the loop and
\* the function, nothing in step() catches it.
StepFailsAt(w, j, wrote) ==
    LET u == UpdateUpTo([w EXCEPT !.trace = << >>], 1, j - 1)
        v == InvokeEvo(u, j)
    IN [v EXCEPT !.scene[j].data = IF wrote THEN @ + 1 ELSE @,
                 !.trace = @ \o << Ev("update", j, "-"), Ev("throw", j, "-") >>]

\* draw() that makes the step of the frame as well.
DrawAlsoSteps(w) == [StepOf(w) EXCEPT !.dp = EraseStateInvoke(@)]

\* basic_manual_engine::draw(): _drawing_policy( _scene )
DrawOf(w) == [w EXCEPT !.dp = EraseStateInvoke(@)]

\* ------------------------------------------------- basic_automatic_engine
\* A run predicate (running_condition_t) is a closure over the engine: a
\* quantifier q over the particles of the current scene of the property
\* "data > thr", possibly negated by its author (uneg) and possibly wrapped
\* in the negation run_until builds (neg).  dies: the closure refers to an
\* object that ends when the call that installed it returns; alive: its
\* referents still exist.
Cond(q, thr, uneg) ==
    [q |-> q, thr |-> thr, uneg |-> uneg, neg |-> FALSE, dies |-> FALSE,
     alive |-> TRUE]

DefaultConditionFalse == Cond("false", 0, FALSE)

\* []( const engine_t& ){ return true; }
DefaultCondition == Cond("true", 0, FALSE)

\* []( const engine_t& ){ return false; }
StopCondition == Cond("false", 0, FALSE)

\* The predicates the caller passes: for every or for some particle the
\* payload exceeds a threshold.
UserConds == { Cond(q, t, FALSE) : q \in {"any", "all"}, t \in 0..MaxThr }

\* The user's own negation of a predicate: [=]( e ){ return !p(e); }
UserNot(c) == [c EXCEPT !.uneg = ~@]

HoldsAtLeast(q, thr, scene) ==
    CASE q = "true" -> TRUE
      [] q = "false" -> FALSE
      [] q = "any" -> \E i \in 1..Len(scene) : scene[i].data >= thr
      [] q = "all" -> \A i \in 1..Len(scene) : scene[i].data >= thr

HoldsSwapped(q, thr, scene) ==
    CASE q = "true" -> TRUE
      [] q = "false" -> FALSE
      [] q = "any" -> \A i \in 1..Len(scene) : scene[i].data > thr
      [] q = "all" -> \E i \in 1..Len(scene) : scene[i].data > thr

\* Quantification that finds nothing to hold over no particles.
HoldsEmptyFalse(q, thr, scene) ==
    CASE q = "true" -> TRUE
      [] q = "false" -> FALSE
      [] q = "any" -> \E i \in 1..Len(scene) : scene[i].data > thr
      [] q = "all" -> /\ Len(scene) > 0
                      /\ \A i \in 1..Len(scene) : scene[i].data > thr

\* std::any_of / std::all_of over e.scene()
Holds(q, thr, scene) ==
    CASE q = "true" -> TRUE
      [] q = "false" -> FALSE
      [] q = "any" -> \E i \in 1..Len(scene) : scene[i].data > thr
      [] q = "all" -> \A i \in 1..Len(scene) : scene[i].data > thr

\* _run_condition( *this ) for a closure whose referents are alive
EvalCond(w) ==
    LET b == Holds(w.rc.q, w.rc.thr, w.scene)
        u == IF w.rc.uneg THEN ~b ELSE b
    IN IF w.rc.neg THEN ~u ELSE u

\* The values the evaluation of the run predicate can produce: a closure
\* that refers to a dead object may produce either.
CondOutcomes(w) == IF w.rc.alive THEN {EvalCond(w)} ELSE BOOLEAN

HookKinds == {"noop", "stop", "cond", "grow", "shrink"}

\* The predicate the "cond" hook installs through run_condition.
HookCondition == Cond("all", 0, TRUE)

\* run_condition that leaves the predicate of stop() in place.
RunConditionKeepsStop(w, c) == [w EXCEPT !.rc = IF @ = StopCondition THEN @ ELSE c]

\* basic_automatic_engine::run_condition
RunConditionOf(w, c) == [w EXCEPT !.rc = c]

StopToggles(w) ==
    [w EXCEPT !.rc = IF @ = StopCondition THEN DefaultCondition ELSE StopCondition]

StopPreempts(w) ==
    [w EXCEPT !.rc = StopCondition,
              !.pc = IF w.pc = "idle" THEN "idle" ELSE "check"]

\* basic_automatic_engine::stop
StopOf(w) == [w EXCEPT !.rc = StopCondition]

\* The hooks (mutable_action_t) the caller can install, each a callable on
\* the engine: "stop" calls stop() when the event it waits for has come (ev),
\* "cond" calls run_condition, "grow" adds a particle to scene(), "shrink"
\* removes the last one.
HookOf(w, kind, ev) ==
    CASE kind = "noop" -> w
      [] kind = "stop" -> IF ev THEN StopOf(w) ELSE w
      [] kind = "cond" -> RunConditionOf(w, HookCondition)
      [] kind = "grow" ->
            IF Len(w.scene) < MaxParticles
            THEN [w EXCEPT !.scene = Append(@, MakeParticle(0, OwnSlot, OwnSlot))]
            ELSE w
      [] kind = "shrink" ->
            IF Len(w.scene) > 0
            THEN [w EXCEPT !.scene = SubSeq(@, 1, Len(@) - 1)]
            ELSE w

BeforeDrawClobbersNext(w, a) == [w EXCEPT !.bd = a, !.bn = a]

\* basic_automatic_engine::before_update / before_draw / before_next
BeforeUpdateOf(w, a) == [w EXCEPT !.bu = a]

BeforeDrawOf(w, a) == [w EXCEPT !.bd = a]

BeforeNextOf(w, a) == [w EXCEPT !.bn = a]

FirstPhaseWhileLoop == "check"

\* do { ... } while( ... ): the body is entered before the first check.
FirstPhase == "before_update"

NextPhaseDrawFirst(pc) ==
    CASE pc = "before_update" -> "draw"
      [] pc = "draw" -> "before_draw"
      [] pc = "before_draw" -> "step"
      [] pc = "step" -> "before_next"
      [] pc = "before_next" -> "check"

\* The order of the statements of the loop body of start().
NextPhase(pc) ==
    CASE pc = "before_update" -> "step"
      [] pc = "step" -> "before_draw"
      [] pc = "before_draw" -> "draw"
      [] pc = "draw" -> "before_next"
      [] pc = "before_next" -> "check"

\* start() that begins with the default predicate again.
StartClearsStop(w) ==
    [w EXCEPT !.pc = FirstPhase, !.iters = 0, !.evals = << >>, !.phases = << >>,
              !.steps0 = w.steps,
              !.rc = IF @ = StopCondition THEN DefaultCondition ELSE @]

\* basic_automatic_engine::start: entering the function.
StartOf(w) ==
    [w EXCEPT !.pc = FirstPhase, !.iters = 0, !.evals = << >>, !.phases = << >>,
              !.steps0 = w.steps]

\* basic_automatic_engine::run_while
RunWhileOf(w, c) == StartOf(RunConditionOf(w, c))

RunUntilNoNegation(w, c, temp) == RunWhileOf(w, [c EXCEPT !.dies = temp])

\* basic_automatic_engine::run_until: the closure negates the predicate it
\* refers to; temp: the argument is a temporary of the caller.
RunUntilOf(w, c, temp) == RunWhileOf(w, [c EXCEPT !.neg = TRUE, !.dies = temp])

\* basic_automatic_engine::run_while_all( property ), the property being
\* "the payload exceeds thr": the closure handed to run_while refers to the
\* parameter property, which ends with the call.
RunWhileAllOf(w, thr) == RunWhileOf(w, [Cond("all", thr, FALSE) EXCEPT !.dies = TRUE])

\* basic_automatic_engine::run_while_any
RunWhileAnyOf(w, thr) == RunWhileOf(w, [Cond("any", thr, FALSE) EXCEPT !.dies = TRUE])

\* basic_automatic_engine::run_until_all: the closure is a temporary handed
\* to run_until.
RunUntilAllOf(w, thr) == RunUntilOf(w, Cond("all", thr, FALSE), TRUE)

\* basic_automatic_engine::run_until_any
RunUntilAnyOf(w, thr) == RunUntilOf(w, Cond("any", thr, FALSE), TRUE)

\* One statement of the loop body of start().
RunPhase(w, pc, ev) ==
    CASE pc = "before_update" -> HookOf(w, w.bu, ev)
      [] pc = "step" -> StepOf(w)
      [] pc = "before_draw" -> HookOf(w, w.bd, ev)
      [] pc = "draw" -> DrawOf(w)
      [] pc = "before_next" -> HookOf(w, w.bn, ev)

\* iters counts the iterations begun, phases lists the statements executed
\* in the current iteration, evals the values of the predicate in this run,
\* steps0 the steps made before the run.
PhaseOf(w, ev) ==
    RunPhase([w EXCEPT
                !.phases = IF w.pc = "before_update" THEN << w.pc >> ELSE Append(@, w.pc),
                !.iters = IF w.pc = "before_update" THEN @ + 1 ELSE @,
                !.pc = NextPhase(w.pc)],
             w.pc, ev)

\* while( _run_condition( *this ) ) with the value r of the predicate: the
\* loop body is entered again, or start() returns and the objects that end
\* with the call are gone.
CheckOf(w, r) ==
    IF r
    THEN [w EXCEPT !.evals = Append(@, r), !.pc = "before_update",
                   !.phases = Append(@, "check")]
    ELSE [w EXCEPT !.evals = Append(@, r), !.pc = "idle",
                   !.phases = Append(@, "check"),
                   !.rc.alive = @ /\ ~w.rc.dies]

\* The hook of the statement about to run.
HookAt(w) ==
    CASE w.pc = "before_update" -> w.bu
      [] w.pc = "before_draw" -> w.bd
      [] w.pc = "before_next" -> w.bn
      [] OTHER -> "none"

\* The exception swallowed: the loop goes on with the next statement.
FailSwallowed(w) == w

\* An exception leaves start(): nothing in start() catches it, the call
\* ends and with it the objects that live as long as the call.
FailOf(w) == [w EXCEPT !.pc = "idle", !.rc.alive = @ /\ ~w.rc.dies]

\* A statement of the loop body that throws after it has brought the engine
\* w to eff.
FailPhase(w, eff) ==
    FailOf([eff EXCEPT
              !.phases = IF w.pc = "before_update" THEN << w.pc >> ELSE Append(w.phases, w.pc),
              !.iters = IF w.pc = "before_update" THEN @ + 1 ELSE @,
              !.pc = NextPhase(w.pc)])

\* A further step of the run the world w is in (w at rest stays as it is).
Advance(w, ev) ==
    CASE w.pc = "idle" -> w
      [] w.pc = "check" -> CheckOf(w, EvalCond(w))
      [] OTHER -> PhaseOf(w, ev)

\* ------------------------------------------------------------ the program
\* asked remembers the hook most recently passed to each setter by the
\* caller (a no-op before the first call).
NewEngine(cfg, n) ==
    [cfg |-> cfg,
     scene |-> [i \in 1..n |-> MakeParticle(0, OwnSlot, OwnSlot)],
     heap |-> << >>,
     dp |-> NewPolicy,
     rc |-> DefaultCondition,
     bu |-> "noop", bd |-> "noop", bn |-> "noop",
     asked |-> [bu |-> "noop", bd |-> "noop", bn |-> "noop"],
     pc |-> "idle", iters |-> 0, steps |-> 0, steps0 |-> 0,
     evals |-> << >>, phases |-> << >>, trace |-> << >>]

AllStated ==
    [evoStated |-> TRUE, drwStated |-> TRUE, dpStated |-> TRUE, evoShared |-> FALSE,
     drwWrites |-> FALSE]

NewWrap(stated) ==
    [stated |-> stated, st |-> NewPolicy, asked |-> [locals |-> 0, globals |-> 0]]

Idle == eng.pc = "idle"

\* ---------------------------------------------- the automatic engine runs
\* basic_automatic_engine over a scene of 0..MaxParticles new particles.
Init ==
    /\ \E n \in 0..MaxParticles : eng = NewEngine(AllStated, n)
    /\ twin = eng
    /\ twinOn = FALSE
    /\ ncalls = 0
    /\ wrap = NewWrap(FALSE)
    /\ handles = << >>

\* A call on the engine at rest, outside a run.
Solo(w) ==
    /\ eng' = w
    /\ twin' = w
    /\ twinOn' = FALSE
    /\ UNCHANGED <<wrap, handles>>

\* A statement of a run: the twin run, when there is one, takes its own.
Both(w, ev) ==
    /\ eng' = w
    /\ twin' = IF twinOn THEN Advance(twin, ev) ELSE w
    /\ UNCHANGED <<twinOn, ncalls, wrap, handles>>

\* The event a "stop" hook waits for has come or not.
Events(kind) == IF kind = "stop" THEN BOOLEAN ELSE {FALSE}

SetBeforeUpdate ==
    /\ Idle /\ ncalls < MaxCalls
    /\ \E a \in HookKinds : Solo([BeforeUpdateOf(eng, a) EXCEPT !.asked.bu = a])
    /\ ncalls' = ncalls + 1

SetBeforeDraw ==
    /\ Idle /\ ncalls < MaxCalls
    /\ \E a \in HookKinds : Solo([BeforeDrawOf(eng, a) EXCEPT !.asked.bd = a])
    /\ ncalls' = ncalls + 1

SetBeforeNext ==
    /\ Idle /\ ncalls < MaxCalls
    /\ \E a \in HookKinds : Solo([BeforeNextOf(eng, a) EXCEPT !.asked.bn = a])
    /\ ncalls' = ncalls + 1

SetRunCondition ==
    /\ Idle /\ ncalls < MaxCalls
    /\ \E c \in UserConds : Solo(RunConditionOf(eng, c))
    /\ ncalls' = ncalls + 1

\* stop() called outside a run.
Stop ==
    /\ Idle
    /\ Solo(StopOf(eng))
    /\ UNCHANGED ncalls

Start ==
    /\ Idle /\ eng.steps < MaxSteps
    /\ Solo(StartOf(eng))
    /\ UNCHANGED ncalls

RunWhile ==
    /\ Idle /\ eng.steps < MaxSteps
    /\ \E c \in UserConds : Solo(RunWhileOf(eng, c))
    /\ UNCHANGED ncalls

\* run_until( c ); the twin is the same engine given run_while( not c ).
RunUntil ==
    /\ Idle /\ eng.steps < MaxSteps
    /\ \E c \in UserConds, temp \in BOOLEAN :
          /\ eng' = RunUntilOf(eng, c, temp)
          /\ twin' = RunWhileOf(eng, UserNot(c))
    /\ twinOn' = TRUE
    /\ UNCHANGED <<ncalls, wrap, handles>>

BeforeUpdatePhase ==
    /\ eng.pc = "before_update"
    /\ \E ev \in Events(eng.bu) : Both(PhaseOf(eng, ev), ev)

StepPhase == eng.pc = "step" /\ Both(PhaseOf(eng, FALSE), FALSE)

BeforeDrawPhase ==
    /\ eng.pc = "before_draw"
    /\ \E ev \in Events(eng.bd) : Both(PhaseOf(eng, ev), ev)

DrawPhase == eng.pc = "draw" /\ Both(PhaseOf(eng, FALSE), FALSE)

BeforeNextPhase ==
    /\ eng.pc = "before_next"
    /\ \E ev \in Events(eng.bn) : Both(PhaseOf(eng, ev), ev)

\* The predicate check of start(); a further iteration begins only within
\* the bound on the steps.
CheckPhase ==
    /\ eng.pc = "check"
    /\ \E r \in CondOutcomes(eng) :
          /\ r => eng.steps < MaxSteps
          /\ Both(CheckOf(eng, r), FALSE)

Next ==
    \/ SetBeforeUpdate \/ SetBeforeDraw \/ SetBeforeNext \/ SetRunCondition
    \/ Stop \/ Start \/ RunWhile \/ RunUntil
    \/ BeforeUpdatePhase \/ StepPhase \/ BeforeDrawPhase \/ DrawPhase
    \/ BeforeNextPhase \/ CheckPhase

Spec == Init /\ [][Next]_vars

\* ------------------------------------------------- runs after stop()
\* An engine whose hooks were set and on which stop() was then called,
\* before any run.
InitStopped ==
    /\ \E n \in 0..MaxParticles, bu \in HookKinds, bd \in HookKinds, bn \in HookKinds :
          eng = StopOf([BeforeNextOf(BeforeDrawOf(BeforeUpdateOf(
                            NewEngine(AllStated, n), bu), bd), bn)
                          EXCEPT !.asked = [bu |-> bu, bd |-> bd, bn |-> bn]])
    /\ twin = eng
    /\ twinOn = FALSE
    /\ ncalls = 0
    /\ wrap = NewWrap(FALSE)
    /\ handles = << >>

NextStopped ==
    \/ Start \/ RunWhile \/ RunUntil
    \/ BeforeUpdatePhase \/ StepPhase \/ BeforeDrawPhase \/ DrawPhase
    \/ BeforeNextPhase \/ CheckPhase

SpecStopped == InitStopped /\ [][NextStopped]_vars

\* ------------------------------------------------- quantified runs
\* An engine as constructed, its hooks left alone, driven through the
\* quantified run functions, run_until and start().
InitQuantified == Init

RunWhileAll ==
    /\ Idle /\ eng.steps < MaxSteps
    /\ \E t \in 0..MaxThr : Solo(RunWhileAllOf(eng, t))
    /\ UNCHANGED ncalls

RunWhileAny ==
    /\ Idle /\ eng.steps < MaxSteps
    /\ \E t \in 0..MaxThr : Solo(RunWhileAnyOf(eng, t))
    /\ UNCHANGED ncalls

RunUntilAll ==
    /\ Idle /\ eng.steps < MaxSteps
    /\ \E t \in 0..MaxThr : Solo(RunUntilAllOf(eng, t))
    /\ UNCHANGED ncalls

RunUntilAny ==
    /\ Idle /\ eng.steps < MaxSteps
    /\ \E t \in 0..MaxThr : Solo(RunUntilAnyOf(eng, t))
    /\ UNCHANGED ncalls

NextQuantified ==
    \/ RunWhileAll \/ RunWhileAny \/ RunUntilAll \/ RunUntilAny
    \/ RunUntil \/ Start
    \/ BeforeUpdatePhase \/ StepPhase \/ BeforeDrawPhase \/ DrawPhase
    \/ BeforeNextPhase \/ CheckPhase

SpecQuantified == InitQuantified /\ [][NextQuantified]_vars

\* ------------------------------------------------- runs with failures
\* A hook throws, before it did anything or after it did what it does.
HookFails ==
    /\ eng.pc \in {"before_update", "before_draw", "before_next"}
    /\ ncalls < MaxCalls
    /\ \E done \in BOOLEAN, ev \in Events(HookAt(eng)) :
          Solo(FailPhase(eng, IF done THEN HookOf(eng, HookAt(eng), ev) ELSE eng))
    /\ ncalls' = ncalls + 1

\* The update policy of a particle throws during the step of an iteration.
StepFails ==
    /\ eng.pc = "step"
    /\ ncalls < MaxCalls
    /\ \E j \in 1..Len(eng.scene), wrote \in BOOLEAN :
          Solo(FailPhase(eng, StepFailsAt(eng, j, wrote)))
    /\ ncalls' = ncalls + 1

\* The collection draw policy throws.
DrawFails ==
    /\ eng.pc = "draw"
    /\ ncalls < MaxCalls
    /\ Solo(FailPhase(eng, eng))
    /\ ncalls' = ncalls + 1

\* The run predicate throws.
CheckFails ==
    /\ eng.pc = "check"
    /\ ncalls < MaxCalls
    /\ Solo(FailOf(eng))
    /\ ncalls' = ncalls + 1

\* The runs start() makes with the hooks the caller has set, any statement
\* of which may throw.
NextFailing ==
    \/ SetBeforeUpdate \/ SetBeforeDraw \/ SetBeforeNext \/ Start
    \/ BeforeUpdatePhase \/ StepPhase \/ BeforeDrawPhase \/ DrawPhase
    \/ BeforeNextPhase \/ CheckPhase
    \/ HookFails \/ StepFails \/ DrawFails \/ CheckFails

SpecFailing == Init /\ [][NextFailing]_vars

\* ------------------------------------------- particles, manual engine
\* The policy types of an engine: stated or not, the particles' update
\* policy held directly or through shared_policy.  drwWrites: the particles'
\* draw policy takes the payload by non-const reference and adds 1 to it.
Config(stated, shared) ==
    [evoStated |-> stated, drwStated |-> stated, dpStated |-> stated,
     evoShared |-> shared, drwWrites |-> FALSE]

\* basic_manual_engine over an empty scene; the scene is filled through
\* scene().
InitManual ==
    /\ \E stated \in BOOLEAN, writes \in BOOLEAN :
          eng = NewEngine([Config(stated, FALSE) EXCEPT !.drwWrites = writes], 0)
    /\ twin = eng
    /\ twinOn = FALSE
    /\ ncalls = 0
    /\ wrap = NewWrap(FALSE)
    /\ handles = << >>

Manual(w) ==
    /\ eng' = w
    /\ twin' = w
    /\ UNCHANGED <<twinOn, wrap>>

\* Copying a shared_policy.  From a const source the copy constructor is
\* chosen and the copy holds the same shared_ptr.  From a non-const lvalue
\* the constructor template shared_policy( ARGS&&... ) is the better match:
\* it runs make_shared<POLICY>( source ), a new POLICY built from the handle
\* (for a POLICY that can be built from one).
SharedPolicyCopy(heap, h, fromConst) ==
    IF fromConst
    THEN [heap |-> heap, handle |-> h]
    ELSE [heap |-> Append(heap, NewPolicy),
          handle |-> [ref |-> Len(heap) + 1, org |-> h.org]]

\* scene().push_back( make_particle( 0 , evolution , drawing ) )
AddParticle ==
    /\ Len(eng.scene) < MaxParticles
    /\ Manual([eng EXCEPT !.scene = Append(@, MakeParticle(0, OwnSlot, OwnSlot))])
    /\ UNCHANGED <<ncalls, handles>>

\* scene().push_back( scene()[i] ): the particle's implicit copy constructor
\* copies the payload and both wrappers from a const source.
CopyParticle ==
    /\ Len(eng.scene) < MaxParticles
    /\ \E i \in 1..Len(eng.scene) :
          LET p == eng.scene[i]
              c == SharedPolicyCopy(eng.heap, [ref |-> p.evo.ref, org |-> p.evo.org], TRUE)
          IN Manual([eng EXCEPT !.heap = c.heap,
                                !.scene = Append(@, [p EXCEPT !.evo.ref = c.handle.ref])])
    /\ UNCHANGED <<ncalls, handles>>

\* step() of the manual engine.
ManualStep ==
    /\ eng.steps < MaxSteps
    /\ Manual(StepOf(eng))
    /\ UNCHANGED <<ncalls, handles>>

\* draw() of the manual engine.
ManualDraw ==
    /\ ncalls < MaxCalls
    /\ Manual(DrawOf(eng))
    /\ ncalls' = ncalls + 1
    /\ UNCHANGED handles

\* update() called on a particle of scene(): the non-const overload.
UpdateParticle ==
    /\ ncalls < MaxCalls
    /\ \E i \in 1..Len(eng.scene) :
          Manual(ParticleUpdate([eng EXCEPT !.trace = << >>], i))
    /\ ncalls' = ncalls + 1
    /\ UNCHANGED handles

\* update() called through a const reference to a particle: the const
\* overload, which needs both policies to accept a state_change.
UpdateConstParticle ==
    /\ ncalls < MaxCalls
    /\ eng.cfg.evoStated /\ eng.cfg.drwStated
    /\ \E i \in 1..Len(eng.scene) :
          Manual(ParticleUpdateConst([eng EXCEPT !.trace = << >>], i))
    /\ ncalls' = ncalls + 1
    /\ UNCHANGED handles

\* draw() called on a particle of scene(): the non-const overload.
DrawParticle ==
    /\ ncalls < MaxCalls
    /\ \E i \in 1..Len(eng.scene) : Manual(ParticleDraw(eng, i))
    /\ ncalls' = ncalls + 1
    /\ UNCHANGED handles

\* draw() called through a const reference to a particle: the const
\* overload, which needs a draw policy that takes a const payload.
DrawConstParticle ==
    /\ ncalls < MaxCalls
    /\ ~eng.cfg.drwWrites
    /\ \E i \in 1..Len(eng.scene) : Manual(ParticleDrawConst(eng, i))
    /\ ncalls' = ncalls + 1
    /\ UNCHANGED handles

\* step() of the manual engine during which the update policy of particle
\* j throws.
ManualStepFails ==
    /\ ncalls < MaxCalls
    /\ \E j \in 1..Len(eng.scene), wrote \in BOOLEAN :
          Manual(StepFailsAt(eng, j, wrote))
    /\ ncalls' = ncalls + 1
    /\ UNCHANGED handles

NextManual ==
    \/ AddParticle \/ CopyParticle
    \/ ManualStep \/ ManualDraw \/ UpdateParticle \/ UpdateConstParticle
    \/ ManualStepFails \/ DrawParticle \/ DrawConstParticle

SpecManual == InitManual /\ [][NextManual]_vars

\* ------------------------------------------------------- shared policies
\* A manual engine whose particles hold their update policy through
\* shared_policy; handles are the shared_policy objects of the caller.
InitShared ==
    /\ eng = NewEngine(Config(TRUE, TRUE), 0)
    /\ twin = eng
    /\ twinOn = FALSE
    /\ ncalls = 0
    /\ wrap = NewWrap(FALSE)
    /\ handles = << >>

\* make_shared_policy( policy ): a new shared instance and its first handle.
MakeShared ==
    /\ Len(handles) < MaxHandles
    /\ Manual([eng EXCEPT !.heap = Append(@, NewPolicy)])
    /\ handles' = Append(handles, [ref |-> Len(eng.heap) + 1, org |-> Len(eng.heap) + 1])
    /\ UNCHANGED ncalls

\* auto copy = handle;
CopyHandle ==
    /\ Len(handles) < MaxHandles
    /\ \E k \in 1..Len(handles), fromConst \in BOOLEAN :
          LET c == SharedPolicyCopy(eng.heap, handles[k], fromConst) IN
          /\ Manual([eng EXCEPT !.heap = c.heap])
          /\ handles' = Append(handles, c.handle)
    /\ UNCHANGED ncalls

\* handle( payload ): shared_policy::operator()
InvokeHandle ==
    /\ ncalls < MaxCalls
    /\ \E k \in 1..Len(handles) :
          Manual([eng EXCEPT !.heap[handles[k].ref] = PolicyCall(@)])
    /\ ncalls' = ncalls + 1
    /\ UNCHANGED handles

\* scene().push_back( make_particle( 0 , handle , drawing ) ): the
\* particle's constructor takes its policies by const reference.
AddSharedParticle ==
    /\ Len(eng.scene) < MaxParticles
    /\ \E k \in 1..Len(handles) :
          LET c == SharedPolicyCopy(eng.heap, handles[k], TRUE) IN
          Manual([eng EXCEPT !.heap = c.heap,
                             !.scene = Append(@, MakeParticle(0, SharedSlot(c.handle), OwnSlot))])
    /\ UNCHANGED <<ncalls, handles>>

\* step() of the manual engine over the particles that share policies.
SharedStep ==
    /\ ncalls < MaxCalls
    /\ Manual(StepOf(eng))
    /\ ncalls' = ncalls + 1
    /\ UNCHANGED handles

NextShared ==
    \/ MakeShared \/ CopyHandle \/ InvokeHandle
    \/ AddSharedParticle \/ CopyParticle \/ SharedStep \/ ManualDraw

SpecShared == InitShared /\ [][NextShared]_vars

\* ------------------------------------------- the counters of a new scene
\* A manual engine made over a scene of 0..MaxScene new particles, payload
\* 0 each, and then only stepped and drawn.
InitScenario ==
    /\ \E stated \in BOOLEAN, n \in 0..MaxScene :
          eng = NewEngine(Config(stated, FALSE), n)
    /\ twin = eng
    /\ twinOn = FALSE
    /\ ncalls = 0
    /\ wrap = NewWrap(FALSE)
    /\ handles = << >>

\* step() of the manual engine, up to MaxK times.
ScenarioStep ==
    /\ eng.steps < MaxK
    /\ Manual(StepOf(eng))
    /\ UNCHANGED <<ncalls, handles>>

NextScenario == ScenarioStep \/ ManualDraw

SpecScenario == InitScenario /\ [][NextScenario]_vars

\* ------------------------------------------------- the wrapper on its own
\* erase_state<P> around a policy that is stated or not; asked counts the
\* notify calls made on the wrapper.
InitWrapper ==
    /\ eng = NewEngine(AllStated, 0)
    /\ twin = eng
    /\ twinOn = FALSE
    /\ ncalls = 0
    /\ \E stated \in BOOLEAN : wrap = NewWrap(stated)
    /\ handles = << >>

\* wrapper( payload )
WrapInvoke ==
    /\ wrap.st.calls < MaxSteps
    /\ wrap' = [wrap EXCEPT !.st = EraseStateInvoke(@)]
    /\ UNCHANGED <<eng, twin, twinOn, ncalls, handles>>

\* wrapper( state_change::local )
WrapNotifyLocal ==
    /\ wrap.asked.locals < MaxSteps
    /\ wrap' = [wrap EXCEPT !.st = EraseStateNotify(wrap.stated, @, Local),
                            !.asked.locals = @ + 1]
    /\ UNCHANGED <<eng, twin, twinOn, ncalls, handles>>

\* wrapper( state_change::global )
WrapNotifyGlobal ==
    /\ wrap.asked.globals < MaxSteps
    /\ wrap' = [wrap EXCEPT !.st = EraseStateNotify(wrap.stated, @, Global),
                            !.asked.globals = @ + 1]
    /\ UNCHANGED <<eng, twin, twinOn, ncalls, handles>>

NextWrapper == WrapInvoke \/ WrapNotifyLocal \/ WrapNotifyGlobal

SpecWrapper == InitWrapper /\ [][NextWrapper]_vars

\* ------------------------------------------------------------- the claims
\* The update events of a trace, in the order they happened.
Updates(tr) == SelectSeq(tr, LAMBDA e : e.op = "update")

\* How often the collection draw policy wrapper was sent a notification.
DpNotifies(tr) == Cardinality({k \in 1..Len(tr) : tr[k].op = "dp_notify"})

\* C1: one step() of the manual engine updates every particle of the
\* scene exactly once, in traversal order, and then sends exactly one
\* Global notification to the collection draw policy wrapper, after the
\* last update; with an empty scene it updates nothing and still sends one.
C1_StepUpdatesEachThenGlobal ==
    [][eng'.steps = eng.steps + 1 =>
          LET tr == eng'.trace
              n == Len(eng.scene)
          IN /\ Len(eng'.scene) = n
             /\ Len(Updates(tr)) = n
             /\ \A i \in 1..n : Updates(tr)[i].idx = i
             /\ \A i \in 1..n : /\ eng'.scene[i].data = eng.scene[i].data + 1
                                /\ eng'.scene[i].evo.st.calls = eng.scene[i].evo.st.calls + 1
             /\ DpNotifies(tr) = 1
             /\ tr[Len(tr)] = Ev("dp_notify", 0, Global)
             /\ eng'.dp = IF eng.cfg.dpStated
                          THEN [eng.dp EXCEPT !.globals = @ + 1]
                          ELSE eng.dp]_vars

\* A step over two particles has happened.
C1_Witness ==
    /\ eng.steps >= 1
    /\ Len(eng.scene) = 2
    /\ Len(Updates(eng.trace)) = 2
    /\ DpNotifies(eng.trace) = 1

\* C2: every update() of a particle calls the update policy on the payload
\* and then sends Local to the update policy wrapper and after it Local to
\* the draw policy wrapper, once each.
C2_UpdateNotifiesLocal ==
    \A k \in 1..Len(eng.trace) :
        eng.trace[k].op = "update" =>
            /\ k + 3 <= Len(eng.trace)
            /\ eng.trace[k + 1] = Ev("evo_call", eng.trace[k].idx, "-")
            /\ eng.trace[k + 2] = Ev("evo_notify", eng.trace[k].idx, Local)
            /\ eng.trace[k + 3] = Ev("drw_notify", eng.trace[k].idx, Local)

\* C3: notify on the wrapper of a non-stated policy does nothing: no call
\* reaches the policy and nothing else changes, however often it is called.
C3_NonStatedNotifyIsNoOp ==
    [][(~wrap.stated /\ wrap'.asked # wrap.asked) =>
          /\ wrap'.st = wrap.st
          /\ wrap'.st.locals = 0 /\ wrap'.st.globals = 0
          /\ wrap'.stated = wrap.stated
          /\ UNCHANGED <<eng, twin, twinOn, ncalls, handles>>]_vars

\* The wrapper of a non-stated policy was sent Local and Global more than
\* once.
C3_Witness ==
    /\ ~wrap.stated
    /\ wrap.asked.locals >= 2 /\ wrap.asked.globals >= 2
    /\ wrap.st.calls >= 1

\* C4: notify forwards to the policy's handler exactly when the policy is
\* stated: each notify of a stated policy is one handler call with the same
\* tag, and whether the wrapper forwards never changes.
C4_NotifyForwardsIffStated ==
    [][/\ wrap'.stated = wrap.stated
       /\ wrap'.asked.locals = wrap.asked.locals + 1 =>
             wrap'.st = IF wrap.stated THEN [wrap.st EXCEPT !.locals = @ + 1]
                                       ELSE wrap.st
       /\ wrap'.asked.globals = wrap.asked.globals + 1 =>
             wrap'.st = IF wrap.stated THEN [wrap.st EXCEPT !.globals = @ + 1]
                                       ELSE wrap.st]_vars

\* The wrapper of a stated policy has forwarded Local and Global.
C4_Witness ==
    /\ wrap.stated
    /\ wrap.asked.locals >= 1 /\ wrap.asked.globals >= 2
    /\ wrap.st.locals = wrap.asked.locals
    /\ wrap.st.globals = wrap.asked.globals

\* The shared_policy objects there are: the caller's handles and those held
\* by the wrappers of the particles.
AllHandles ==
    {handles[k] : k \in 1..Len(handles)} \cup
    {[ref |-> eng.scene[i].evo.ref, org |-> eng.scene[i].evo.org] :
        i \in 1..Len(eng.scene)}

\* C5: all handles that stem from one shared_policy refer to one underlying
\* policy and so observe the same policy state; a copy of a handle or of a
\* particle never makes a second underlying policy.
C5_OneInstancePerSharedPolicy ==
    \A a, b \in AllHandles :
        a.org = b.org => (a.ref = b.ref /\ eng.heap[a.ref] = eng.heap[b.ref])

\* The statements of one iteration of start(), in the order claimed.
LoopOrder ==
    << "before_update", "step", "before_draw", "draw", "before_next", "check" >>

IsPrefix(a, b) == Len(a) <= Len(b) /\ a = SubSeq(b, 1, Len(a))

\* C6: in every iteration of start() the before-update hook, step(), the
\* before-draw hook, draw(), the before-next hook and one evaluation of the
\* run predicate happen in this order, once each, and the predicate is
\* evaluated nowhere else: the steps, draws and evaluations made agree with
\* the position in the loop.
C6_PhasesInOrder ==
    /\ IsPrefix(eng.phases, LoopOrder)
    /\ eng.pc \in {"idle", "before_update"} =>
          /\ eng.phases \in { << >>, LoopOrder }
          /\ Len(eng.evals) = eng.iters
    /\ eng.pc \notin {"idle", "before_update"} =>
          /\ LoopOrder[Len(eng.phases) + 1] = eng.pc
          /\ Len(eng.evals) = eng.iters - 1
    /\ eng.steps - eng.steps0 = IF eng.pc = "step" THEN eng.iters - 1 ELSE eng.iters
    /\ eng.dp.globals = eng.steps
    /\ eng.dp.calls = IF eng.pc \in {"before_draw", "draw"} THEN eng.steps - 1
                                                             ELSE eng.steps

\* The second iteration of a run has reached its predicate check.
C6_Witness ==
    /\ eng.pc = "check"
    /\ eng.iters = 2
    /\ eng.phases = SubSeq(LoopOrder, 1, 5)

\* C7: start() runs one full iteration before the predicate is first
\* evaluated and returns right after the first evaluation that yields
\* false: a run that has returned made i >= 1 iterations, the predicate held
\* after each of the first i - 1 and failed after the i-th.
C7_PostConditionLoop ==
    /\ eng.pc # "idle" => \A k \in 1..Len(eng.evals) : eng.evals[k]
    /\ eng.pc = "check" => eng.steps - eng.steps0 = Len(eng.evals) + 1
    /\ eng.evals # << >> => eng.steps - eng.steps0 >= 1
    /\ (eng.pc = "idle" /\ eng.phases # << >>) =>
          /\ eng.iters >= 1
          /\ Len(eng.evals) = eng.iters
          /\ eng.steps - eng.steps0 = eng.iters
          /\ ~eng.evals[eng.iters]
          /\ \A k \in 1..(eng.iters - 1) : eng.evals[k]

\* start() was called with the predicate already false and no hook at all:
\* it has returned after one iteration.
C7_Witness ==
    /\ eng.pc = "idle"
    /\ eng.evals = << FALSE >>
    /\ eng.rc = StopCondition
    /\ eng.bu = "noop" /\ eng.bd = "noop" /\ eng.bn = "noop"
    /\ eng.steps - eng.steps0 = 1

\* The state of an engine but for its run predicate.
SimState(w) == [w EXCEPT !.rc = DefaultCondition]

\* C8: run_until(p) and run_while(not p), begun in the same engine state
\* and given the same events, make the same number of iterations and leave
\* the same state: the two runs agree at every statement, the value of
\* their predicates included.
C8_RunUntilAsRunWhileNot ==
    twinOn =>
        /\ SimState(twin) = SimState(eng)
        /\ twin.iters = eng.iters /\ twin.pc = eng.pc
        /\ eng.pc # "idle" => EvalCond(twin) = EvalCond(eng)

\* A run_until of two iterations has returned.
C8_Witness ==
    /\ twinOn
    /\ eng.pc = "idle"
    /\ eng.iters = 2
    /\ eng.rc.neg

\* C9: stop() called by a hook during an iteration cancels nothing: the
\* statement after the hook is the usual one, every remaining statement of
\* the iteration runs while the predicate stays the one stop() set, and the
\* check of that iteration ends the run, so that no further iteration
\* begins.
C9_StopIsCooperative ==
    [][/\ (HookAt(eng) = "stop" /\ eng.rc # StopCondition /\ eng'.rc = StopCondition) =>
             /\ eng'.pc = NextPhase(eng.pc)
             /\ eng'.scene = eng.scene /\ eng'.dp = eng.dp
             /\ eng'.steps = eng.steps /\ eng'.evals = eng.evals
       /\ (eng.pc \notin {"idle", "check"} /\ eng.rc = StopCondition
              /\ eng'.rc = StopCondition) =>
             /\ eng'.pc = NextPhase(eng.pc)
             /\ eng'.phases = IF eng.pc = "before_update" THEN << eng.pc >>
                                                          ELSE Append(eng.phases, eng.pc)
       /\ (eng.pc = "check" /\ eng.rc = StopCondition) =>
             /\ eng'.pc = "idle"
             /\ eng'.iters = eng.iters /\ eng'.steps = eng.steps
             /\ eng'.phases = LoopOrder]_vars

\* A before-next hook called stop() in the second iteration of a run, and
\* the run has ended with that iteration.
C9_Witness ==
    /\ eng.pc = "idle"
    /\ eng.bn = "stop" /\ eng.bu # "stop" /\ eng.bd # "stop"
    /\ eng.rc = StopCondition
    /\ eng.evals = << TRUE, FALSE >>
    /\ eng.iters = 2

\* C10: stop() can be called in every state of the engine; after it the run
\* predicate is the always-false one, the scene, the hooks and the
\* collection draw policy are as before, and a second stop() changes
\* nothing.
C10_StopIdempotent ==
    LET s == StopOf(eng) IN
    /\ s.rc = StopCondition
    /\ s.rc.alive /\ ~EvalCond(s)
    /\ StopOf(s) = s
    /\ [s EXCEPT !.rc = eng.rc] = eng

\* stop() was called after a run of two iterations that ended by its own
\* predicate.
C10_Witness ==
    /\ eng.pc = "idle"
    /\ eng.rc = StopCondition
    /\ eng.evals = << TRUE, FALSE >>
    /\ eng.bu # "stop" /\ eng.bd # "stop" /\ eng.bn # "stop"

\* The engine but for its position in the loop.
AtRest(w) == [w EXCEPT !.pc = "idle", !.phases = << >>, !.iters = 0]

\* C11: each of before_update, before_draw and before_next replaces the
\* hook of its own phase only: the hook held for a phase is always the one
\* most recently passed to that phase's setter (a no-op before the first
\* call), it is the one that runs in that phase, a setter call leaves the
\* other two hooks, the run predicate and the scene as they were, and no
\* other statement replaces a hook.
C11_SettersReplaceOwnHookOnly ==
    /\ [](/\ eng.bu = eng.asked.bu /\ eng.bd = eng.asked.bd /\ eng.bn = eng.asked.bn
          /\ ncalls = 0 => eng.asked = [bu |-> "noop", bd |-> "noop", bn |-> "noop"])
    /\ [][/\ eng'.asked.bu # eng.asked.bu =>
               eng' = [eng EXCEPT !.bu = eng'.asked.bu, !.asked.bu = eng'.asked.bu]
          /\ eng'.asked.bd # eng.asked.bd =>
               eng' = [eng EXCEPT !.bd = eng'.asked.bd, !.asked.bd = eng'.asked.bd]
          /\ eng'.asked.bn # eng.asked.bn =>
               eng' = [eng EXCEPT !.bn = eng'.asked.bn, !.asked.bn = eng'.asked.bn]
          /\ eng'.asked = eng.asked =>
               (eng'.bu = eng.bu /\ eng'.bd = eng.bd /\ eng'.bn = eng.bn)
          /\ (HookAt(eng) # "none" /\ eng'.pc = NextPhase(eng.pc)) =>
               LET k == CASE eng.pc = "before_update" -> eng.asked.bu
                          [] eng.pc = "before_draw" -> eng.asked.bd
                          [] eng.pc = "before_next" -> eng.asked.bn
               IN /\ \E ev \in BOOLEAN : AtRest(eng') = AtRest(HookOf(eng, k, ev))
                  /\ k = "noop" => AtRest(eng') = AtRest(eng)]_vars

\* The before-draw hook was set after the before-next hook, to another
\* hook, and a run has executed both.
C11_Witness ==
    /\ eng.asked.bn = "grow" /\ eng.asked.bd = "stop" /\ eng.asked.bu = "noop"
    /\ eng.bn = "grow" /\ eng.bd = "stop"
    /\ eng.pc = "idle" /\ eng.iters >= 1
    /\ ncalls = 2

\* A run that has returned: start() was entered and the loop was left.
Returned(w) == w.pc = "idle" /\ w.phases # << >>

\* C12: with the default run predicate in place (never replaced, stop()
\* never called) start() does not return: the predicate of every check is
\* true and the next iteration begins, so a run that has returned has
\* another predicate.
C12_DefaultRunsForever ==
    /\ [](/\ (eng.rc = DefaultCondition) => (eng.rc.alive /\ EvalCond(eng))
          /\ (eng.rc = DefaultCondition /\ eng.pc # "idle") =>
                \A k \in 1..Len(eng.evals) : eng.evals[k]
          /\ Returned(eng) => eng.rc # DefaultCondition)
    /\ [][(eng.pc = "check" /\ eng.rc = DefaultCondition) =>
             /\ eng'.pc = "before_update"
             /\ eng'.rc = DefaultCondition
             /\ eng'.iters = eng.iters]_vars

\* A run under the default predicate has begun its third iteration.
C12_Witness ==
    /\ eng.rc = DefaultCondition
    /\ eng.pc = "step"
    /\ eng.iters = 3
    /\ eng.evals = << TRUE, TRUE >>

\* C13: over a scene of N new particles (payload 0, update policy
\* "payload += 1"), after k consecutive calls of step() of the manual engine
\* every payload is k, every update policy was called k times, and the
\* collection draw policy was notified Global exactly k times (a stated
\* policy has handled k of them) and never Local.
C13_CountersAfterKSteps ==
    /\ \A i \in 1..Len(eng.scene) :
          /\ eng.scene[i].data = eng.steps
          /\ eng.scene[i].evo.st.calls = eng.steps
    /\ eng.dp.globals = IF eng.cfg.dpStated THEN eng.steps ELSE 0
    /\ eng.dp.locals = 0
    /\ eng.steps > 0 => DpNotifies(eng.trace) = 1

\* The stated case: 3 particles, 5 steps.
C13_Witness ==
    /\ Len(eng.scene) = 3
    /\ eng.steps = 5
    /\ \A i \in 1..3 : eng.scene[i].data = 5
    /\ eng.dp.globals = 5

\* The hooks of w leave the run predicate alone and remove no particle.
HooksKeep(w) ==
    /\ w.bu \in {"noop", "grow"} /\ w.bd \in {"noop", "grow"}
    /\ w.bn \in {"noop", "grow"}

\* C14: run_until_any( data > T ), T >= 0, on an engine over a non-empty
\* scene of counters that start at 0 and grow by 1 per step (the hooks
\* leave predicate and particles alone) makes exactly T + 1 iterations: the
\* predicate lets the run go on after each of the first T iterations and
\* ends it after iteration T + 1, the first after which a counter exceeds T.
C14_RunUntilAnyStopsAfterTPlus1 ==
    (/\ eng.rc.q = "any" /\ eng.rc.neg /\ ~eng.rc.uneg
     /\ eng.steps0 = 0
     /\ HooksKeep(eng)
     /\ Len(eng.scene) >= 1 /\ eng.scene[1].data = eng.steps) =>
        /\ eng.iters <= eng.rc.thr + 1
        /\ eng.pc = "check" => EvalCond(eng) = (eng.iters < eng.rc.thr + 1)
        /\ eng.pc = "idle" =>
              /\ eng.iters = eng.rc.thr + 1
              /\ eng.steps = eng.rc.thr + 1
              /\ eng.evals = [k \in 1..eng.iters |-> k < eng.iters]

\* run_until_any( data > 1 ) over two particles has returned after two
\* iterations.
C14_Witness ==
    /\ eng.rc.q = "any" /\ eng.rc.neg /\ ~eng.rc.uneg /\ eng.rc.thr = 1
    /\ eng.steps0 = 0 /\ HooksKeep(eng)
    /\ Len(eng.scene) = 2
    /\ eng.scene[1].data = 2 /\ eng.scene[2].data = 2
    /\ eng.pc = "idle" /\ eng.iters = 2

\* C15: the predicate of run_while_all / run_while_any / run_until_all /
\* run_until_any quantifies over the particles of the scene as it is at the
\* check: the run goes on after a check exactly if (while) the property
\* holds for every / for some particle of the current scene, or (until) it
\* does not; particles a hook added or removed count or no longer count.
C15_QuantifiedOverCurrentScene ==
    [][(/\ eng.pc = "check" /\ eng'.pc # "check"
        /\ eng.rc.q \in {"any", "all"} /\ ~eng.rc.uneg /\ eng.rc.alive) =>
          LET n == Len(eng.scene)
              every == \A i \in 1..n : eng.scene[i].data > eng.rc.thr
              some == \E i \in 1..n : eng.scene[i].data > eng.rc.thr
              q == IF eng.rc.q = "all" THEN every ELSE some
              goOn == IF eng.rc.neg THEN ~q ELSE q
          IN /\ eng'.pc = IF goOn THEN "before_update" ELSE "idle"
             /\ eng'.evals = Append(eng.evals, goOn)
             /\ eng'.scene = eng.scene]_vars

\* run_while_all( data > 0 ) ended after one iteration because of the
\* particle a hook had added after the step.
C15_Witness ==
    /\ eng.rc.q = "all" /\ ~eng.rc.neg /\ ~eng.rc.uneg /\ eng.rc.thr = 0
    /\ eng.pc = "idle" /\ eng.evals = << FALSE >>
    /\ Len(eng.scene) = 2
    /\ eng.scene[1].data = 1 /\ eng.scene[2].data = 0

\* C16: a failure of a hook, of step(), of draw() or of the run predicate
\* during an iteration of start() ends the call at once: no later statement
\* of the iteration and no further iteration or predicate evaluation
\* happens, and the engine stays as the failing statement left it: the
\* steps, notifications and draws made, the payloads, the hooks and the
\* predicate are kept.
C16_FailureLeavesStart ==
    [][(eng.pc # "idle" /\ ncalls' = ncalls + 1) =>
          /\ eng'.pc = "idle"
          /\ eng'.iters = IF eng.pc = "before_update" THEN eng.iters + 1 ELSE eng.iters
          /\ eng'.phases = CASE eng.pc = "check" -> eng.phases
                              [] eng.pc = "before_update" -> << eng.pc >>
                              [] OTHER -> Append(eng.phases, eng.pc)
          /\ eng'.evals = eng.evals
          /\ eng'.steps = eng.steps /\ eng'.steps0 = eng.steps0
          /\ eng'.dp = eng.dp
          /\ eng'.bu = eng.bu /\ eng'.bd = eng.bd /\ eng'.bn = eng.bn
          /\ \A i \in 1..Len(eng.scene) :
                i <= Len(eng'.scene) => eng'.scene[i].data >= eng.scene[i].data
          /\ HookAt(eng) = "none" =>
                /\ Len(eng'.scene) = Len(eng.scene)
                /\ [eng'.rc EXCEPT !.alive = TRUE] = [eng.rc EXCEPT !.alive = TRUE]
          /\ eng.pc \in {"draw", "check"} => eng'.scene = eng.scene
          /\ HookAt(eng) # "none" =>
                \E ev \in BOOLEAN :
                    AtRest([eng' EXCEPT !.rc.alive = TRUE]) \in
                        { AtRest([eng EXCEPT !.rc.alive = TRUE]),
                          AtRest([HookOf(eng, HookAt(eng), ev) EXCEPT !.rc.alive = TRUE]) }]_vars

\* The before-next hook of the first iteration threw after it had added a
\* particle: the step and the draw of the iteration and the new particle
\* are in place and the predicate was never evaluated.
C16_Witness ==
    /\ eng.pc = "idle"
    /\ eng.phases = SubSeq(LoopOrder, 1, 5)
    /\ eng.evals = << >> /\ eng.iters = 1
    /\ eng.bn = "grow"
    /\ Len(eng.scene) = 2
    /\ eng.scene[1].data = 1 /\ eng.scene[2].data = 0
    /\ eng.steps = 1 /\ eng.dp.calls = 1 /\ eng.dp.globals = 1

\* The failures of updates in the trace, and whether there is one.
Throws(tr) == SelectSeq(tr, LAMBDA e : e.op = "throw")

Threw(w) == Throws(w.trace) # << >>

\* C20: when the update of the particle at position j fails in step() of
\* the manual engine, the step ends there: particles 1..j-1 have their
\* updated payloads, the particles after j are as before, no Global
\* notification is sent and the step does not count as made.
C20_StepFailureStopsTraversal ==
    [][(ncalls' = ncalls + 1 /\ Threw(eng') /\ eng'.dp.calls = eng.dp.calls) =>
          LET j == Throws(eng'.trace)[1].idx IN
          /\ Len(Throws(eng'.trace)) = 1
          /\ Len(eng'.scene) = Len(eng.scene)
          /\ Len(Updates(eng'.trace)) = j
          /\ \A i \in 1..(j - 1) :
                /\ eng'.scene[i].data = eng.scene[i].data + 1
                /\ eng'.scene[i].evo.st.calls = eng.scene[i].evo.st.calls + 1
          /\ \A i \in (j + 1)..Len(eng.scene) : eng'.scene[i] = eng.scene[i]
          /\ DpNotifies(eng'.trace) = 0
          /\ eng'.dp = eng.dp
          /\ eng'.steps = eng.steps]_vars

\* The first step over two particles failed at the second one.
C20_Witness ==
    /\ Threw(eng)
    /\ Throws(eng.trace)[1].idx = 2
    /\ Len(eng.scene) = 2
    /\ eng.scene[1].data = 1 /\ eng.scene[2].data = 0
    /\ eng.steps = 0 /\ eng.dp.globals = 0

\* A draw() of a particle has just been made.
Drew(w) == Len(w.trace) > 0 /\ w.trace[1].op = "draw"

\* C17: draw() of a particle calls the particle's draw policy exactly once
\* and does nothing else to the policies: neither wrapper is sent Local or
\* Global, the update policy is not called, and no other particle and no
\* policy of the engine is touched.
C17_ParticleDrawOnlyDraws ==
    [][(ncalls' = ncalls + 1 /\ Drew(eng') /\ eng'.dp.calls = eng.dp.calls) =>
          LET i == eng'.trace[1].idx IN
          /\ eng'.trace = << Ev("draw", i, "-"), Ev("drw_call", i, "-") >>
          /\ eng'.scene[i].drw.st = [eng.scene[i].drw.st EXCEPT !.calls = @ + 1]
          /\ eng'.scene[i].evo = eng.scene[i].evo
          /\ Len(eng'.scene) = Len(eng.scene)
          /\ \A k \in 1..Len(eng.scene) : k # i => eng'.scene[k] = eng.scene[k]
          /\ eng'.dp = eng.dp /\ eng'.heap = eng.heap
          /\ eng'.steps = eng.steps]_vars

\* The second particle of a scene of stated policies was drawn twice.
C17_Witness ==
    /\ Drew(eng) /\ eng.trace[1].idx = 2
    /\ eng.cfg.drwStated
    /\ eng.scene[2].drw.st = [calls |-> 2, locals |-> 0, globals |-> 0]

\* C18: draw() of a particle leaves the payload as it was, whatever draw
\* policy the particle was made with.
C18_ParticleDrawKeepsPayload ==
    [][(ncalls' = ncalls + 1 /\ Drew(eng') /\ eng'.dp.calls = eng.dp.calls) =>
          \A k \in 1..Len(eng.scene) : eng'.scene[k].data = eng.scene[k].data]_vars

\* C19: draw() of the manual engine calls the collection draw policy once
\* with the scene and does nothing else (no update, no notification, no
\* step), and step() never makes the collection draw policy's scene call:
\* the scene draws made are as many as the calls of draw().
C19_EngineDrawOnlyDraws ==
    /\ [](eng.dp.calls = ncalls)
    /\ [][/\ ncalls' = ncalls + 1 => eng' = [eng EXCEPT !.dp.calls = @ + 1]
          /\ eng'.steps # eng.steps =>
                (eng'.dp.calls = eng.dp.calls /\ ncalls' = ncalls)]_vars

\* Two draws and two steps were made over three particles.
C19_Witness ==
    /\ ncalls = 2 /\ eng.dp.calls = 2
    /\ eng.steps = 2
    /\ Len(eng.scene) = 3

\* C21: whatever steps and draws a basic engine makes, notifications go by
\* kind: no update or draw policy of a particle, shared or not, is ever
\* sent Global, and the collection draw policy is never sent Local; a step
\* advances the collection draw policy once and the policies shared by the
\* particles are only called, once per particle that holds them.
C21_NotificationsRoutedByKind ==
    /\ [](/\ \A i \in 1..Len(eng.scene) :
                /\ eng.scene[i].evo.st.globals = 0
                /\ eng.scene[i].drw.st.globals = 0
          /\ \A r \in 1..Len(eng.heap) : eng.heap[r].globals = 0
          /\ eng.dp.locals = 0
          /\ eng.dp.globals = eng.steps)
    /\ [][eng'.steps = eng.steps + 1 =>
             /\ \A e \in {eng'.trace[k] : k \in 1..Len(eng'.trace)} :
                   e.change # "-" => (e.op = "dp_notify" /\ e.change = Global)
             /\ \A r \in 1..Len(eng.heap) :
                   eng'.heap[r] =
                      [eng.heap[r] EXCEPT !.calls = @ + Cardinality(
                          {i \in 1..Len(eng.scene) : eng.scene[i].evo.ref = r})]]_vars

\* Two particles that share one update policy were stepped and drawn: the
\* shared policy was called twice and notified of nothing, the collection
\* draw policy got its one Global.
C21_Witness ==
    /\ eng.steps = 1 /\ eng.dp.calls = 1
    /\ Len(eng.scene) = 2
    /\ eng.scene[1].evo.ref > 0 /\ eng.scene[1].evo.ref = eng.scene[2].evo.ref
    /\ eng.heap[eng.scene[1].evo.ref] = [calls |-> 2, locals |-> 0, globals |-> 0]
    /\ eng.dp.globals = 1

\* No hook of w calls stop().
NoStopHook(w) == w.bu # "stop" /\ w.bd # "stop" /\ w.bn # "stop"

\* C22: stop() called outside a run stays in force and costs no iteration:
\* start() leaves the always-false predicate in place, runs one full
\* iteration (before-update, step, before-draw, draw, before-next), finds
\* the predicate false and returns with the predicate still in place, so
\* that every later start() does the same until the predicate is replaced.
C22_StopPersistsOneIteration ==
    /\ []((eng.rc = StopCondition /\ eng.pc # "idle" /\ NoStopHook(eng)) =>
            /\ eng.iters <= 1
            /\ eng.evals = << >>
            /\ eng.steps - eng.steps0 = IF eng.pc \in {"before_update", "step"}
                                        THEN 0 ELSE 1)
    /\ [][/\ (eng.rc = StopCondition /\ eng.pc = "idle" /\ eng'.pc # "idle"
                 /\ eng'.rc = StopCondition) =>
               (eng'.pc = "before_update" /\ eng'.iters = 0 /\ eng'.scene = eng.scene)
          /\ (eng.rc = StopCondition /\ eng.pc = "idle" /\ eng'.pc # "idle") =>
               (eng'.rc = StopCondition \/ eng'.rc.q \in {"any", "all"})
          /\ (eng.rc = StopCondition /\ eng.pc = "check") =>
               /\ eng'.pc = "idle"
               /\ eng'.rc = StopCondition
               /\ eng'.phases = LoopOrder
               /\ eng'.evals = Append(eng.evals, FALSE)]_vars

\* After stop(), start() was called twice with no hook set: the second
\* call has returned after its one iteration.
C22_Witness ==
    /\ eng.pc = "idle" /\ eng.rc = StopCondition
    /\ eng.bu = "noop" /\ eng.bd = "noop" /\ eng.bn = "noop" /\ ncalls = 0
    /\ eng.steps0 = 1 /\ eng.steps = 2
    /\ eng.iters = 1 /\ eng.evals = << FALSE >>
    /\ eng.phases = LoopOrder

\* C23: stop() only assigns the run predicate, so a later assignment
\* replaces it: a hook that calls run_condition( p ) after stop() was called
\* installs p, run_while( p ) and run_until( p ) called after stop() install
\* their predicate, and the check of an iteration goes by the predicate in
\* place at that moment: the run goes on if it holds and ends if not.
C23_ReplacementCancelsStop ==
    [][/\ (HookAt(eng) = "cond" /\ eng'.pc = NextPhase(eng.pc)) =>
             eng'.rc = HookCondition
       /\ (eng.pc = "idle" /\ eng'.pc # "idle" /\ eng.rc = StopCondition
              /\ eng'.rc # StopCondition) =>
             /\ eng'.rc.q \in {"any", "all"}
             /\ eng'.rc.alive
       /\ (eng.pc = "check" /\ eng'.pc # "check" /\ eng.rc # StopCondition
              /\ eng.rc.alive) =>
             /\ eng'.pc = IF EvalCond(eng) THEN "before_update" ELSE "idle"
             /\ eng'.evals = Append(eng.evals, EvalCond(eng))
             /\ [eng'.rc EXCEPT !.alive = TRUE] = eng.rc]_vars

\* On an engine stopped before the run, with a hook that calls stop(), a
\* later one that adds a particle and a last one that calls
\* run_condition( p ), start() made more than one iteration and ended by p.
C23_Witness ==
    /\ eng.bu = "stop" /\ eng.bd = "grow" /\ eng.bn = "cond"
    /\ eng.pc = "idle" /\ eng.rc = HookCondition
    /\ eng.iters >= 2
    /\ eng.evals[1] /\ ~eng.evals[eng.iters]

\* A run over no particles whose predicate is a quantified one and refers to
\* live objects.
EmptyRun(w) ==
    /\ Len(w.scene) = 0 /\ w.pc # "idle"
    /\ w.rc.q \in {"any", "all"} /\ w.rc.alive

\* The predicates of run_while_any and of run_until_all.
WhileAnyOrUntilAll(c) == (c.q = "any" /\ ~c.neg) \/ (c.q = "all" /\ c.neg)

\* C24: on a scene that is empty and stays empty, whatever the property,
\* run_while_any and run_until_all end after exactly one iteration, and
\* every check of run_while_all and run_until_any begins a further
\* iteration (no hook calls stop() or replaces the predicate).
C24_EmptySceneRuns ==
    /\ []((EmptyRun(eng) /\ WhileAnyOrUntilAll(eng.rc)) =>
            (eng.iters <= 1 /\ eng.evals = << >>))
    /\ [][(EmptyRun(eng) /\ eng.pc = "check" /\ eng'.pc # "check") =>
             IF WhileAnyOrUntilAll(eng.rc)
             THEN eng'.pc = "idle" /\ eng'.iters = 1 /\ eng'.evals = << FALSE >>
             ELSE /\ eng'.pc = "before_update"
                  /\ Len(eng'.scene) = 0
                  /\ eng'.evals = Append(eng.evals, TRUE)]_vars

\* run_until_any on an empty scene in its third iteration.
C24_Witness ==
    /\ EmptyRun(eng) /\ eng.rc.q = "any" /\ eng.rc.neg /\ eng.rc.dies
    /\ eng.pc = "step" /\ eng.iters = 3
    /\ eng.evals = << TRUE, TRUE >>

\* C25: whenever start() evaluates the run predicate, the objects the
\* predicate refers to are alive.
C25_PredicateAliveAtCheck == eng.pc = "check" => eng.rc.alive

====
